---------------------------- MODULE Spec2Model ----------------------------
(***************************************************************************)
(* AI Text Lookup (akshattkashyap/aihelp-extension): the background        *)
(* service worker (query dispatcher with 429 fallback), the message        *)
(* bridge, the options page and the content script's selection monitor     *)
(* and dialog presenter.                                                   *)
(*                                                                         *)
(* Strings the code trims or tests for emptiness are sequences of          *)
(* characters; messages the code only passes on are TLA+ strings, with ""  *)
(* the empty (falsy) one.  A JavaScript object is a record; an absent      *)
(* property is a field that is not in the record's DOMAIN.                 *)
(***************************************************************************)
EXTENDS Integers, Sequences, FiniteSets, TLC

VARIABLES
    store,          \* chrome.storage.sync: geminiApiKey / geminiModel, when set
    net,            \* the replies the provider can give to a fetch in this run
    reqs,           \* one record per chrome.runtime.sendMessage request
    sel,            \* the browser's current selection (window.getSelection())
    currentPopup,   \* content.js:17, 0 for null
    currentDialog,  \* content.js:18, 0 for null
    selectionRect,  \* content.js:19
    popups,         \* the trigger elements attached to document.body
    dialogs,        \* the dialog elements created so far, in creation order
    timers,         \* pending setTimeout callbacks, in registration order
    win             \* the window: innerWidth, innerHeight, scrollX, scrollY

dispatcherVars == <<store, net, reqs>>
pageVars == <<sel, currentPopup, currentDialog, selectionRect, popups, dialogs,
              timers, win>>
vars == <<store, net, reqs, sel, currentPopup, currentDialog, selectionRect,
          popups, dialogs, timers, win>>

----------------------------------------------------------------------------
(* Bounds                                                                  *)

\* requests an arbitrary sender may have outstanding at once
MaxRaw == 1
\* trigger affordances attached to the page at once
MaxPopups == 2
\* dialogs the page creates in one run
MaxDialogs == 2
\* setTimeout callbacks pending at once
MaxTimers == 2

----------------------------------------------------------------------------
(* String helpers                                                          *)

\* the white space of the modelled texts that String.prototype.trim strips
WhiteSpace == {" ", "\n"}

RECURSIVE TrimLeft(_)
TrimLeft(s) ==
    IF s # <<>> /\ Head(s) \in WhiteSpace THEN TrimLeft(Tail(s)) ELSE s

RECURSIVE TrimRight(_)
TrimRight(s) ==
    IF s # <<>> /\ s[Len(s)] \in WhiteSpace
    THEN TrimRight(SubSeq(s, 1, Len(s) - 1)) ELSE s

\* String.prototype.trim
Trim(s) == TrimRight(TrimLeft(s))

\* a || b on message strings: the empty string is the falsy one
OrElse(a, b) == IF Len(a) = 0 THEN b ELSE a

\* obj.f, for a property that may be absent: membership test
Has(obj, f) == f \in DOMAIN obj

----------------------------------------------------------------------------
(* Persisted settings                                                      *)

AVAILABLE_MODELS ==
    <<"gemini-2.5-flash-lite", "gemini-2.5-flash", "gemini-3-flash-preview">>

DefaultModel == "gemini-2.5-flash-lite"

\* a model name the store can hold that is not in AVAILABLE_MODELS
LegacyModel == "gemini-2.0-flash"

\* null, as getSettings returns it for a missing key
NullKey == <<>>

\* getSettings with another default model
getSettings_OtherDefault(s) ==
    [apiKey |-> IF Has(s, "geminiApiKey") /\ s.geminiApiKey # <<>>
                THEN s.geminiApiKey ELSE NullKey,
     model  |-> IF Has(s, "geminiModel") /\ s.geminiModel # ""
                THEN s.geminiModel ELSE LegacyModel]

\* getSettings: apiKey: result.geminiApiKey || null, model: result.geminiModel || default
getSettings(s) ==
    [apiKey |-> IF Has(s, "geminiApiKey") /\ s.geminiApiKey # <<>>
                THEN s.geminiApiKey ELSE NullKey,
     model  |-> IF Has(s, "geminiModel") /\ s.geminiModel # ""
                THEN s.geminiModel ELSE DefaultModel]

----------------------------------------------------------------------------
(* One HTTP attempt                                                        *)

RateLimited == 429

Rejected(m) ==
    [kind |-> "reject", message |-> m, status |-> 0, body |-> "none",
     errmsg |-> "", hasText |-> FALSE, text |-> <<>>]

Http(s, b, em, ht, tx) ==
    [kind |-> "http", message |-> "", status |-> s, body |-> b,
     errmsg |-> em, hasText |-> ht, text |-> tx]

\* what fetch can do: reject, or resolve with a status and a body that is
\* not JSON, is the JSON value null, or is a JSON object
AllReplies ==
    {Rejected(m) : m \in {"", "Failed to fetch"}}
    \cup {Http(s, b, "", FALSE, <<>>) :
            s \in {200, RateLimited, 500}, b \in {"unparseable", "null"}}
    \cup {Http(s, "object", em, FALSE, <<>>) :
            s \in {RateLimited, 500}, em \in {"", "Quota exceeded"}}
    \cup {Http(200, "object", "", FALSE, <<>>)}
    \cup {Http(200, "object", "", TRUE, t) : t \in {<<>>, <<" ">>, <<" ", "a">>}}

ResponseOk(reply) == reply.status >= 200 /\ reply.status <= 299

StatusText(s) ==
    CASE s = RateLimited -> "API request failed with status 429"
      [] s = 500 -> "API request failed with status 500"
      [] OTHER   -> "API request failed with status ?"

TypeErrorMessage == "Cannot read properties of null"
SyntaxErrorMessage == "Unexpected token in JSON"

\* AttemptResult without the !aiResponse check
AttemptResult_NoEmptyCheck(reply) ==
    IF reply.kind = "reject"
    THEN [success |-> FALSE,
          error |-> OrElse(reply.message, "Network error occurred")]
    ELSE IF ~ResponseOk(reply)
    THEN IF reply.body = "null"
         THEN [success |-> FALSE, error |-> TypeErrorMessage]
         ELSE [success |-> FALSE,
               error |-> OrElse(IF reply.body = "object" THEN reply.errmsg ELSE "",
                                StatusText(reply.status)),
               statusCode |-> reply.status]
    ELSE IF reply.body = "unparseable"
    THEN [success |-> FALSE, error |-> SyntaxErrorMessage]
    ELSE IF reply.body = "null"
    THEN [success |-> FALSE, error |-> TypeErrorMessage]
    ELSE [success |-> TRUE, response |-> Trim(reply.text)]

\* the body of makeAPICall / makeCustomAPICall from the fetch on; the two
\* differ in the prompt only
AttemptResult(reply) ==
    IF reply.kind = "reject"
    THEN [success |-> FALSE,
          error |-> OrElse(reply.message, "Network error occurred")]
    ELSE IF ~ResponseOk(reply)
    THEN IF reply.body = "null"
         THEN \* errorData is null: errorData.error throws, caught below
              [success |-> FALSE, error |-> TypeErrorMessage]
         ELSE [success |-> FALSE,
               error |-> OrElse(IF reply.body = "object" THEN reply.errmsg ELSE "",
                                StatusText(reply.status)),
               statusCode |-> reply.status]
    ELSE IF reply.body = "unparseable"
    THEN [success |-> FALSE, error |-> SyntaxErrorMessage]
    ELSE IF reply.body = "null"
    THEN [success |-> FALSE, error |-> TypeErrorMessage]
    ELSE IF ~reply.hasText \/ Trim(reply.text) = <<>>
    THEN [success |-> FALSE, error |-> "No response received from AI"]
    ELSE [success |-> TRUE, response |-> Trim(reply.text)]

makeAPICall(reply) == AttemptResult(reply)

makeCustomAPICall(reply) == AttemptResult(reply)

----------------------------------------------------------------------------
(* Messages and requests                                                   *)

\* request.text / request.question as a sender can set them
RawTexts == {<<>>, <<" ">>, <<" ", "a">>}

\* every AI_QUERY / AI_QUERY_CUSTOM message, with text and question present
\* or absent
RawMessages ==
    {[type |-> "AI_QUERY"]}
    \cup {[type |-> "AI_QUERY", text |-> t] : t \in RawTexts}
    \cup {[type |-> "AI_QUERY_CUSTOM"]}
    \cup {[type |-> "AI_QUERY_CUSTOM", text |-> t] : t \in RawTexts}
    \cup {[type |-> "AI_QUERY_CUSTOM", question |-> u] : u \in RawTexts}
    \cup {[type |-> "AI_QUERY_CUSTOM", text |-> t, question |-> u] :
            t \in RawTexts, u \in RawTexts}

NoResult == [pending |-> TRUE]

\* a request as sendMessage creates it: the message, the dialog whose
\* callback waits for it (0: a sender that is not the content script), and
\* the locals of the dispatch that serves it
NewRequest(m, d) ==
    [msg |-> m, from |-> d, st |-> "sent",
     apiKey |-> NullKey, selectedModel |-> "", fallbackModels |-> <<>>, i |-> 0,
     result |-> NoResult,
     calls |-> <<>>,       \* the fetches of this dispatch, in order
     nresp |-> 0,          \* invocations of sendResponse
     out |-> NoResult,     \* the QueryResult on its way over the bridge
     ncb |-> 0,            \* invocations of the sender's callback
     got |-> NoResult,     \* what the callback received
     lastKey |-> NullKey]  \* history: the key the sender's previous dispatch read

IdleRequest == [NewRequest([type |-> "none"], 0) EXCEPT !.st = "idle"]

Failure(e) == [success |-> FALSE, error |-> e]

\* !selectedText || selectedText.trim().length === 0
NoText(m) == ~Has(m, "text") \/ m.text = <<>> \/ Len(Trim(m.text)) = 0

\* !question || question.trim().length === 0
NoQuestion(m) == ~Has(m, "question") \/ m.question = <<>> \/ Len(Trim(m.question)) = 0

\* ValidateQuery without the trim
ValidateQuery_NoTrim(m) ==
    IF ~Has(m, "text") \/ m.text = <<>> THEN "No text selected" ELSE ""

\* the listener's checks of an AI_QUERY: the error it answers with, "" if none
ValidateQuery(m) == IF NoText(m) THEN "No text selected" ELSE ""

\* ValidateCustom without the check of the question
ValidateCustom_NoQuestionCheck(m) == IF NoText(m) THEN "No text selected" ELSE ""

\* the listener's checks of an AI_QUERY_CUSTOM, in the order the code makes them
ValidateCustom(m) ==
    IF NoText(m) THEN "No text selected"
    ELSE IF NoQuestion(m) THEN "No question provided"
    ELSE ""

\* sendResponse that adds the key of the dispatch to the result
sendResponse_WithKey(q, res) ==
    [q EXCEPT !.nresp = @ + 1,
              !.out = IF q.nresp = 0
                      THEN [f \in DOMAIN res \cup {"response"} |->
                              IF f = "response" THEN q.apiKey ELSE res[f]]
                      ELSE @,
              !.st = "responded"]

\* sendResponse(res): the port carries the first response only
sendResponse(q, res) ==
    [q EXCEPT !.nresp = @ + 1,
              !.out = IF q.nresp = 0 THEN res ELSE @,
              !.st = "responded"]

\* fetch(endpoint(model, apiKey), ...) issued by dispatch q; the log keeps
\* what the attempt returns once it has returned
Fetch(q, m) ==
    [q EXCEPT !.calls = Append(@, [model |-> m, key |-> q.apiKey, result |-> NoResult])]

\* result = await makeAPICall(...): the pending attempt of q returned res
Settle(q, res) ==
    [q EXCEPT !.result = res, !.calls[Len(q.calls)].result = res]

NotConfigured ==
    "API key not configured. Right-click the extension icon -> Options to set your API key."

\* result.statusCode === 429
Is429(res) == Has(res, "statusCode") /\ res.statusCode = RateLimited

\* FallbackModels without the filter
FallbackModels_Unfiltered(selected) == AVAILABLE_MODELS

\* AVAILABLE_MODELS.filter((m) => m !== selectedModel)
FallbackModels(selected) == SelectSeq(AVAILABLE_MODELS, LAMBDA m : m # selected)

\* { ...result, modelUsed: m }
WithModel(res, m) ==
    [success |-> res.success, response |-> res.response, modelUsed |-> m]

\* LastFailure that drops result.error
LastFailure_Generic(res) == Failure("Failed to get AI response")

\* the final return: { success: false, error: result.error || "Failed to get AI response" }
LastFailure(res) == Failure(OrElse(res.error, "Failed to get AI response"))

\* DispatchStart with the key of the previous dispatch kept for the next
DispatchStart_KeepsKey(q, s) ==
    IF s.apiKey = NullKey /\ q.lastKey = NullKey
    THEN sendResponse(q, Failure(NotConfigured))
    ELSE Fetch([q EXCEPT !.apiKey = IF q.lastKey # NullKey THEN q.lastKey ELSE s.apiKey,
                         !.selectedModel = s.model, !.st = "first"], s.model)

\* DispatchStart without the check of the key
DispatchStart_NoKeyCheck(q, s) ==
    Fetch([q EXCEPT !.apiKey = s.apiKey, !.selectedModel = s.model,
                    !.st = "first"], s.model)

\* getAIResponse up to its first fetch: settings s have just been read
DispatchStart(q, s) ==
    IF s.apiKey = NullKey
    THEN sendResponse(q, Failure(NotConfigured))
    ELSE Fetch([q EXCEPT !.apiKey = s.apiKey, !.selectedModel = s.model,
                         !.st = "first"], s.model)

\* AfterFirst that tries the other models after any failure
AfterFirst_AnyFailure(q, res) ==
    IF res.success
    THEN sendResponse(Settle(q, res), WithModel(res, q.selectedModel))
    ELSE LET fb == FallbackModels(q.selectedModel)
         IN  Fetch([Settle(q, res) EXCEPT !.fallbackModels = fb, !.i = 1,
                                          !.st = "fallback"], fb[1])

\* AfterFirst that returns nothing when the attempt failed for good
AfterFirst_ReturnsUndefined(q, res) ==
    IF res.success
    THEN sendResponse(Settle(q, res), WithModel(res, q.selectedModel))
    ELSE IF Is429(res) /\ FallbackModels(q.selectedModel) # <<>>
    THEN LET fb == FallbackModels(q.selectedModel)
         IN  Fetch([Settle(q, res) EXCEPT !.fallbackModels = fb, !.i = 1,
                                          !.st = "fallback"], fb[1])
    ELSE sendResponse(Settle(q, res), NoResult)

\* AfterFirst that answers a success and then falls through to the last return
AfterFirst_FallsThrough(q, res) ==
    IF res.success
    THEN sendResponse(sendResponse(Settle(q, res), WithModel(res, q.selectedModel)),
                      Failure("Failed to get AI response"))
    ELSE IF Is429(res) /\ FallbackModels(q.selectedModel) # <<>>
    THEN LET fb == FallbackModels(q.selectedModel)
         IN  Fetch([Settle(q, res) EXCEPT !.fallbackModels = fb, !.i = 1,
                                          !.st = "fallback"], fb[1])
    ELSE sendResponse(Settle(q, res), LastFailure(res))

\* getAIResponse after the first attempt returned res
AfterFirst(q, res) ==
    IF res.success
    THEN sendResponse(Settle(q, res), WithModel(res, q.selectedModel))
    ELSE IF Is429(res) /\ FallbackModels(q.selectedModel) # <<>>
    THEN LET fb == FallbackModels(q.selectedModel)
         IN  Fetch([Settle(q, res) EXCEPT !.fallbackModels = fb, !.i = 1,
                                          !.st = "fallback"], fb[1])
    ELSE sendResponse(Settle(q, res), LastFailure(res))

\* AfterFallback that tries the same fallback model again after a 429
AfterFallback_RetriesSame(q, res) ==
    IF res.success
    THEN sendResponse(Settle(q, res), WithModel(res, q.fallbackModels[q.i]))
    ELSE IF ~Is429(res)
    THEN sendResponse(Settle(q, res), LastFailure(res))
    ELSE Fetch(Settle(q, res), q.fallbackModels[q.i])

\* AfterFallback without the break on a failure that is not a 429
AfterFallback_NoBreak(q, res) ==
    IF res.success
    THEN sendResponse(Settle(q, res), WithModel(res, q.fallbackModels[q.i]))
    ELSE IF q.i < Len(q.fallbackModels)
    THEN Fetch([Settle(q, res) EXCEPT !.i = @ + 1], q.fallbackModels[q.i + 1])
    ELSE sendResponse(Settle(q, res), LastFailure(res))

\* one turn of the fallback loop: attempt i returned res
AfterFallback(q, res) ==
    IF res.success
    THEN sendResponse(Settle(q, res), WithModel(res, q.fallbackModels[q.i]))
    ELSE IF ~Is429(res)
    THEN sendResponse(Settle(q, res), LastFailure(res))
    ELSE IF q.i < Len(q.fallbackModels)
    THEN Fetch([Settle(q, res) EXCEPT !.i = @ + 1], q.fallbackModels[q.i + 1])
    ELSE sendResponse(Settle(q, res), LastFailure(res))

----------------------------------------------------------------------------
(* The service worker                                                      *)

Pending(r, stage, type) ==
    /\ r \in DOMAIN reqs
    /\ reqs[r].st = stage
    /\ reqs[r].msg.type = type

\* onMessage listener, AI_QUERY branch
OnAIQuery(r) ==
    /\ Pending(r, "sent", "AI_QUERY")
    /\ reqs' = [reqs EXCEPT ![r] =
                  IF ValidateQuery(@.msg) # ""
                  THEN sendResponse(@, Failure(ValidateQuery(@.msg)))
                  ELSE [@ EXCEPT !.st = "settings"]]
    /\ UNCHANGED <<store, net, pageVars>>

\* onMessage listener, AI_QUERY_CUSTOM branch
OnAIQueryCustom(r) ==
    /\ Pending(r, "sent", "AI_QUERY_CUSTOM")
    /\ reqs' = [reqs EXCEPT ![r] =
                  IF ValidateCustom(@.msg) # ""
                  THEN sendResponse(@, Failure(ValidateCustom(@.msg)))
                  ELSE [@ EXCEPT !.st = "settings"]]
    /\ UNCHANGED <<store, net, pageVars>>

\* getAIResponse_settings that writes the settings it resolved back to the store
getAIResponse_settings_WritesBack(r) ==
    /\ Pending(r, "settings", "AI_QUERY")
    /\ reqs' = [reqs EXCEPT ![r] = DispatchStart(@, getSettings(store))]
    /\ store' = [k \in DOMAIN store \cup {"geminiModel"} |->
                    IF k = "geminiModel" THEN getSettings(store).model ELSE store[k]]
    /\ UNCHANGED <<net, pageVars>>

\* getAIResponse: await getSettings() resolves
getAIResponse_settings(r) ==
    /\ Pending(r, "settings", "AI_QUERY")
    /\ reqs' = [reqs EXCEPT ![r] = DispatchStart(@, getSettings(store))]
    /\ UNCHANGED <<store, net, pageVars>>

\* getAIResponse: the first makeAPICall resolves
getAIResponse_first(r) ==
    /\ Pending(r, "first", "AI_QUERY")
    /\ \E reply \in net :
         reqs' = [reqs EXCEPT ![r] = AfterFirst(@, makeAPICall(reply))]
    /\ UNCHANGED <<store, net, pageVars>>

\* getAIResponse: a fallback makeAPICall resolves
getAIResponse_fallback(r) ==
    /\ Pending(r, "fallback", "AI_QUERY")
    /\ \E reply \in net :
         reqs' = [reqs EXCEPT ![r] = AfterFallback(@, makeAPICall(reply))]
    /\ UNCHANGED <<store, net, pageVars>>

getCustomAIResponse_settings(r) ==
    /\ Pending(r, "settings", "AI_QUERY_CUSTOM")
    /\ reqs' = [reqs EXCEPT ![r] = DispatchStart(@, getSettings(store))]
    /\ UNCHANGED <<store, net, pageVars>>

getCustomAIResponse_first(r) ==
    /\ Pending(r, "first", "AI_QUERY_CUSTOM")
    /\ \E reply \in net :
         reqs' = [reqs EXCEPT ![r] = AfterFirst(@, makeCustomAPICall(reply))]
    /\ UNCHANGED <<store, net, pageVars>>

getCustomAIResponse_fallback(r) ==
    /\ Pending(r, "fallback", "AI_QUERY_CUSTOM")
    /\ \E reply \in net :
         reqs' = [reqs EXCEPT ![r] = AfterFallback(@, makeCustomAPICall(reply))]
    /\ UNCHANGED <<store, net, pageVars>>

----------------------------------------------------------------------------
(* The options page                                                        *)

Key1 == <<"A", "I", "z", "a", "1">>
Key2 == <<"A", "I", "z", "a", "2">>

\* what the user can have typed into the key field at a save click
KeyInputs == {<<>>, <<" ">>, Key1, <<" ">> \o Key2, <<"s", "k">>}

\* the values the model <select> can have
ModelChoices == {AVAILABLE_MODELS[k] : k \in DOMAIN AVAILABLE_MODELS} \cup {LegacyModel}

StartsWith(s, prefix) ==
    Len(s) >= Len(prefix) /\ SubSeq(s, 1, Len(prefix)) = prefix

\* chrome.storage.sync.set(items): the store with items written over it
StorageSet(s, items) ==
    [k \in DOMAIN s \cup DOMAIN items |-> IF k \in DOMAIN items THEN items[k] ELSE s[k]]

\* the status element after a save click of the key-only page, before the
\* callback of the write: the code writes it and never reads it
SaveApiKeyStatus(input) ==
    IF Trim(input) = <<>>
    THEN [textContent |-> "Please enter an API key", className |-> "status error"]
    ELSE [textContent |-> "Saving...", className |-> "status"]

\* the status element after a save click of options.js and the callback of
\* its write
SaveSettingsStatus(input, model) ==
    IF Trim(input) = <<>>
    THEN [textContent |-> "Please enter an API key", className |-> "status error"]
    ELSE IF ~StartsWith(Trim(input), <<"A", "I", "z", "a">>)
    THEN [textContent |-> "Invalid API key format. Should start with \"AIza\"",
          className |-> "status error"]
    ELSE [textContent |-> "Settings saved! Using " \o model,
          className |-> "status success"]

\* save click of the options page that has the key field only
SaveApiKey(input) ==
    /\ store' = IF Trim(input) = <<>>
                THEN store
                ELSE StorageSet(store, [geminiApiKey |-> Trim(input)])
    /\ UNCHANGED <<net, reqs, pageVars>>

\* options.js, save click: key and model
SaveSettings(input, model) ==
    /\ store' = IF Trim(input) = <<>> \/ ~StartsWith(Trim(input), <<"A", "I", "z", "a">>)
                THEN store
                ELSE StorageSet(store, [geminiApiKey |-> Trim(input), geminiModel |-> model])
    /\ UNCHANGED <<net, reqs, pageVars>>

----------------------------------------------------------------------------
(* The page: selection, timers, DOM                                        *)

DEBOUNCE_DELAY == 150
POPUP_FADE == 150
DIALOG_FADE == 200

NoRect == [null |-> TRUE]

POPUP_OFFSET == 8

\* range.getBoundingClientRect(), in viewport coordinates: a range without
\* layout has the 0 by 0 box, selected text a box on the page
ZeroBox == [x |-> 0, y |-> 0, w |-> 0, h |-> 0]
TextBox == [x |-> 100, y |-> 100, w |-> 50, h |-> 20]

\* the window of a desktop page that is not scrolled
DefaultWindow == [innerWidth |-> 1200, innerHeight |-> 800, scrollX |-> 0, scrollY |-> 0]

NoSelection == [ranges |-> FALSE, collapsed |-> TRUE, text |-> <<>>, box |-> ZeroBox]

\* window.getSelection() as the page can have it: nothing, a caret, selected
\* text, selected whitespace, selected text that has no box
Selections ==
    {NoSelection,
     [ranges |-> TRUE, collapsed |-> TRUE, text |-> <<>>, box |-> ZeroBox],
     [ranges |-> TRUE, collapsed |-> FALSE, text |-> <<" ", "a">>, box |-> TextBox],
     [ranges |-> TRUE, collapsed |-> FALSE, text |-> <<" ">>, box |-> TextBox],
     [ranges |-> TRUE, collapsed |-> FALSE, text |-> <<"a">>, box |-> ZeroBox]}

\* the object getSelectionRect returns for selection s: the box in document
\* coordinates (scroll offsets added) and its viewport top and bottom; 'of'
\* records the text the rectangle was taken for
RectOf(s) ==
    [of |-> s.text,
     top |-> s.box.y + win.scrollY,
     bottom |-> s.box.y + s.box.h + win.scrollY,
     left |-> s.box.x + win.scrollX,
     right |-> s.box.x + s.box.w + win.scrollX,
     width |-> s.box.w,
     height |-> s.box.h,
     viewportTop |-> s.box.y,
     viewportBottom |-> s.box.y + s.box.h]

\* getSelectionRect without the check of a 0 by 0 box
getSelectionRect_NoBoxCheck(s) ==
    IF ~s.ranges \/ s.collapsed THEN NoRect ELSE RectOf(s)

\* getSelectionRect(): null, or the rectangle of the selected range
getSelectionRect(s) ==
    IF ~s.ranges \/ s.collapsed THEN NoRect
    ELSE IF s.box.w = 0 /\ s.box.h = 0 THEN NoRect
    ELSE RectOf(s)

\* getSelectedText(): selection.toString().trim()
getSelectedText(s) == Trim(s.text)

\* setTimeout(callback, ms).  The time between two events is free, so a
\* pending callback may run after any number of events; what the delays fix
\* is the order in which callbacks run (CanFire).  el is the element the
\* caller has just faded (style.opacity = "0"), 0 if none; escaped records
\* that Escape has been pressed while the callback was pending.
setTimeout(ts, kind, ms, el) ==
    Append(ts, [kind |-> kind, delay |-> ms, el |-> el, escaped |-> FALSE])

\* history: Escape was pressed while these callbacks were pending
MarkEscaped(ts) == [k \in DOMAIN ts |-> [ts[k] EXCEPT !.escaped = TRUE]]

\* handleSelection without the clearTimeout
clearDebounce_Keeps(ts) == ts

\* clearTimeout(debounceTimer): at most one debounce timer is pending
clearDebounce(ts) == SelectSeq(ts, LAMBDA t : t.kind # "debounce")

RemoveAt(ts, k) == SubSeq(ts, 1, k - 1) \o SubSeq(ts, k + 1, Len(ts))

\* callback k may run next: every callback registered before it that is
\* still pending has a longer delay (one registered earlier with a delay
\* that is not longer is due first)
CanFire(k, kind) ==
    /\ k \in DOMAIN timers
    /\ timers[k].kind = kind
    /\ \A j \in 1..(k - 1) : timers[j].delay > timers[k].delay

\* removePopup(): the timers after the call
removePopup(ts) ==
    IF currentPopup # 0 THEN setTimeout(ts, "popup", POPUP_FADE, currentPopup) ELSE ts

\* removeDialog(): the timers after the call
removeDialog(ts) ==
    IF currentDialog # 0 THEN setTimeout(ts, "dialog", DIALOG_FADE, currentDialog) ELSE ts

AttachedDialogs == {d \in DOMAIN dialogs : dialogs[d].attached}

Min(S) == CHOOSE x \in S : \A y \in S : x <= y

\* document.getElementById("ai-lookup-content"): the first one in the document
ContentTarget(ds) ==
    LET c == {d \in DOMAIN ds : ds[d].attached /\ ds[d].hasContent}
    IN  IF c = {} THEN 0 ELSE Min(c)

\* document.getElementById("ai-lookup-footer")
FooterTarget(ds) ==
    LET c == {d \in DOMAIN ds : ds[d].attached /\ ds[d].kind = "ask"}
    IN  IF c = {} THEN 0 ELSE Min(c)

Loading == [state |-> "loading"]

\* width: "500px", maxWidth: "calc(100vw - 40px)": the width the dialog
\* is laid out with
DialogWidth == IF win.innerWidth - 40 < 500 THEN win.innerWidth - 40 ELSE 500

\* positionDialog(dialog, rect): style.top and style.left, in px
positionDialog(rect) ==
    LET dialogHeight == 180
        dialogWidth == 320
        below == rect.bottom + POPUP_OFFSET
        top == IF rect.viewportBottom + dialogHeight + POPUP_OFFSET > win.innerHeight
               THEN rect.top - dialogHeight - POPUP_OFFSET
               ELSE below
        left1 == IF rect.left + dialogWidth > win.innerWidth + win.scrollX - 20
                 THEN win.innerWidth + win.scrollX - dialogWidth - 20
                 ELSE rect.left
        left == IF left1 < win.scrollX + 20 THEN win.scrollX + 20 ELSE left1
    IN  [top |-> top, left |-> left]

\* createDialogBox(rect, selectedText)
createDialogBox(rect, text) ==
    [kind |-> "explain", attached |-> TRUE, rect |-> rect, text |-> text,
     hasContent |-> TRUE, content |-> Loading,
     hasInput |-> FALSE, input |-> <<>>, footer |-> "flex",
     top |-> positionDialog(rect).top, left |-> positionDialog(rect).left,
     width |-> DialogWidth]

\* createAskAIDialogBox(rect, selectedText)
createAskAIDialogBox(rect, text) ==
    [kind |-> "ask", attached |-> TRUE, rect |-> rect, text |-> text,
     hasContent |-> FALSE, content |-> [state |-> "none"],
     hasInput |-> TRUE, input |-> <<>>, footer |-> "none",
     top |-> positionDialog(rect).top, left |-> positionDialog(rect).left,
     width |-> DialogWidth]

\* a dialog element removed from the document: no handler of it can run and
\* no lookup finds it, so nothing of it is kept
Detached ==
    [kind |-> "gone", attached |-> FALSE, rect |-> NoRect, text |-> <<>>,
     hasContent |-> FALSE, content |-> [state |-> "none"],
     hasInput |-> FALSE, input |-> <<>>, footer |-> "none",
     top |-> 0, left |-> 0, width |-> 0]

\* the characters of "&amp;", "&lt;", "&gt;" and of the tags of parseMarkdown
AmpEntity == <<"&", "a", "m", "p", ";">>
LtEntity == <<"&", "l", "t", ";">>
GtEntity == <<"&", "g", "t", ";">>
StrongOpen == <<"<", "s", "t", "r", "o", "n", "g", ">">>
StrongClose == <<"<", "/", "s", "t", "r", "o", "n", "g", ">">>
EmOpen == <<"<", "e", "m", ">">>
EmClose == <<"<", "/", "e", "m", ">">>
CodeOpen ==
    <<"<", "c", "o", "d", "e", " ", "s", "t", "y", "l", "e", "=", "\"", "b",
      "a", "c", "k", "g", "r", "o", "u", "n", "d", ":", "#", "f", "0", "f",
      "0", "f", "0", ";", "p", "a", "d", "d", "i", "n", "g", ":", "2", "p",
      "x", " ", "4", "p", "x", ";", "b", "o", "r", "d", "e", "r", "-", "r",
      "a", "d", "i", "u", "s", ":", "3", "p", "x", ";", "f", "o", "n", "t",
      "-", "f", "a", "m", "i", "l", "y", ":", "m", "o", "n", "o", "s", "p",
      "a", "c", "e", ";", "\"", ">">>
CodeClose == <<"<", "/", "c", "o", "d", "e", ">">>
LineBreak == <<"<", "b", "r", ">">>

\* the character U+0060, which a string of this notation cannot hold
Backquote == "U+0060"

\* s has the characters of d from position i on
StartsAt(s, i, d) ==
    /\ i + Len(d) - 1 <= Len(s)
    /\ SubSeq(s, i, i + Len(d) - 1) = d

\* text.replace(/c/g, by) for a single character c
RECURSIVE ReplaceChar(_, _, _)
ReplaceChar(s, c, by) ==
    IF s = <<>> THEN <<>>
    ELSE (IF Head(s) = c THEN by ELSE <<Head(s)>>) \o ReplaceChar(Tail(s), c, by)

\* where d(.+?)d matches when d starts at i: the first later position of d
\* with at least one character and no line terminator in between (the
\* lazy group grows one character at a time, and "." stops at "\n"); 0: none
CloseAt(s, i, d) ==
    LET J == {j \in i + Len(d) + 1 .. Len(s) :
                /\ StartsAt(s, j, d)
                /\ \A k \in i + Len(d) .. j - 1 : s[k] # "\n"}
    IN  IF J = {} THEN 0 ELSE Min(J)

\* text.replace(/d(.+?)d/g, open + "$1" + close) from position i on: matches
\* are taken leftmost first and do not overlap
RECURSIVE ReplaceSpan(_, _, _, _, _)
ReplaceSpan(s, i, d, open, close) ==
    IF i > Len(s) THEN <<>>
    ELSE IF StartsAt(s, i, d) /\ CloseAt(s, i, d) # 0
    THEN open \o SubSeq(s, i + Len(d), CloseAt(s, i, d) - 1) \o close
              \o ReplaceSpan(s, CloseAt(s, i, d) + Len(d), d, open, close)
    ELSE <<s[i]>> \o ReplaceSpan(s, i + 1, d, open, close)

\* the first three replacements of parseMarkdown, in their order
EscapeMarkup(text) ==
    ReplaceChar(ReplaceChar(ReplaceChar(text, "&", AmpEntity), "<", LtEntity),
                ">", GtEntity)

\* the formatting replacements of parseMarkdown, in their order
FormatMarkdown(s) ==
    LET bold1 == ReplaceSpan(s, 1, <<"*", "*">>, StrongOpen, StrongClose)
        bold2 == ReplaceSpan(bold1, 1, <<"_", "_">>, StrongOpen, StrongClose)
        ital1 == ReplaceSpan(bold2, 1, <<"*">>, EmOpen, EmClose)
        ital2 == ReplaceSpan(ital1, 1, <<"_">>, EmOpen, EmClose)
        code  == ReplaceSpan(ital2, 1, <<Backquote>>, CodeOpen, CodeClose)
    IN  ReplaceChar(code, "\n", LineBreak)

\* parseMarkdown without the escaping replacements
parseMarkdown_NoEscape(text) == FormatMarkdown(text)

\* parseMarkdown(text)
parseMarkdown(text) == FormatMarkdown(EscapeMarkup(text))

\* escapeHtml(text): the text becomes the textContent of a new div, whose
\* innerHTML is read back; the serialisation of a text node replaces "&",
\* "<" and ">"
escapeHtml(text) ==
    ReplaceChar(ReplaceChar(ReplaceChar(text, "&", AmpEntity), "<", LtEntity),
                ">", GtEntity)

\* the fixed markup of the error branch around the message, each as one item
ErrorOpen == <<"<div style=...><svg ...>...</svg><span>">>
ErrorClose == <<"</span></div>">>

\* contentEl.innerHTML after updateDialogContent has written content c
innerHTML(c) ==
    IF c.state = "error" THEN ErrorOpen \o escapeHtml(c.error) \o ErrorClose
    ELSE IF c.state = "response" THEN parseMarkdown(c.response)
    ELSE <<"<div style=...>...<span>Getting AI response...</span></div>">>

\* updateDialogContent(content, isError)
updateDialogContent(ds, shown) ==
    LET t == ContentTarget(ds)
    IN  IF t = 0 THEN ds ELSE [ds EXCEPT ![t].content = shown]

\* footerEl.style.display = "flex"
showFooter(ds) ==
    LET t == FooterTarget(ds)
    IN  IF t = 0 THEN ds ELSE [ds EXCEPT ![t].footer = "flex"]

ConnectError == "Failed to connect to extension. Please try again."

\* what the response callback passes to updateDialogContent
Shown(r, lastError, response) ==
    IF lastError
    THEN [state |-> "error", error |-> ConnectError, req |-> r]
    ELSE IF Has(response, "success") /\ response.success
    THEN [state |-> "response", response |-> response.response, req |-> r]
    ELSE [state |-> "error",
          error |-> OrElse(IF Has(response, "error") THEN response.error ELSE "",
                           "Failed to get AI response"),
          req |-> r]

\* the callback handlePopupClick gives to sendMessage
ExplainCallback(ds, r, lastError, response) ==
    updateDialogContent(ds, Shown(r, lastError, response))

\* the callback submitQuestion gives to sendMessage
CustomCallback(ds, r, lastError, response) ==
    IF lastError
    THEN updateDialogContent(ds, Shown(r, lastError, response))
    ELSE showFooter(updateDialogContent(ds, Shown(r, lastError, response)))

\* the sender's callback runs
Callback(ds, r, lastError, response) ==
    IF reqs[r].from = 0 THEN ds
    ELSE IF reqs[r].msg.type = "AI_QUERY"
    THEN ExplainCallback(ds, r, lastError, response)
    ELSE CustomCallback(ds, r, lastError, response)

----------------------------------------------------------------------------
(* The message bridge                                                      *)

\* the request once its callback has run: the dispatch's locals are gone
Retired(q, stage, response) ==
    [NewRequest(q.msg, q.from) EXCEPT
        !.st = stage, !.nresp = q.nresp, !.ncb = q.ncb + 1, !.got = response,
        !.lastKey = q.apiKey]

\* a sender other than the content script sends any message
RawSend(r, m) ==
    /\ r \in DOMAIN reqs
    /\ reqs[r].from = 0
    /\ reqs[r].st \in {"idle", "delivered", "lost"}
    /\ reqs' = [reqs EXCEPT ![r] = [NewRequest(m, 0) EXCEPT !.lastKey = reqs[r].lastKey]]
    /\ UNCHANGED <<store, net, pageVars>>

\* the response reaches the sender: its callback runs with it
Deliver(r) ==
    /\ r \in DOMAIN reqs
    /\ reqs[r].st = "responded"
    /\ reqs' = [reqs EXCEPT ![r] = Retired(@, "delivered", @.out)]
    /\ dialogs' = Callback(dialogs, r, FALSE, reqs[r].out)
    /\ UNCHANGED <<win, store, net, sel, currentPopup, currentDialog, selectionRect,
                   popups, timers>>

\* the message gets no answer (no receiving end, or a listener with no branch
\* for its type, as the listener of background.js for AI_QUERY_CUSTOM): the
\* callback runs with chrome.runtime.lastError set and no response
BridgeFail(r) ==
    /\ r \in DOMAIN reqs
    /\ reqs[r].st = "sent"
    /\ reqs' = [reqs EXCEPT ![r] = Retired(@, "lost", NoResult)]
    /\ dialogs' = Callback(dialogs, r, TRUE, NoResult)
    /\ UNCHANGED <<win, store, net, sel, currentPopup, currentDialog, selectionRect,
                   popups, timers>>

----------------------------------------------------------------------------
(* The content script's handlers                                           *)

\* what the user can have typed into the question field
QuestionInputs == {<<" ">>, <<" ", "a">>}

\* the selection changes (mouse or keyboard)
SelectionChange(s) ==
    /\ s # sel
    /\ sel' = s
    /\ UNCHANGED <<win, dispatcherVars, currentPopup, currentDialog, selectionRect,
                   popups, dialogs, timers>>

\* createPopup(rect): the new element, named by the least name no attached
\* trigger has
NewPopup == Min((1..MaxPopups) \ popups)

\* handleSelection(): restart the debounce timer
handleSelection(ts) == setTimeout(clearDebounce(ts), "debounce", DEBOUNCE_DELAY, 0)

\* MouseUp without the check of the target
MouseUp_NoTargetCheck(inside) ==
    /\ inside => (popups # {} \/ AttachedDialogs # {})
    /\ ~inside => Cardinality(popups) < MaxPopups
    /\ timers' = handleSelection(timers)
    /\ Len(timers') <= MaxTimers
    /\ UNCHANGED <<win, dispatcherVars, sel, currentPopup, currentDialog, selectionRect,
                   popups, dialogs>>

\* mouseup listener; inside: the target is in a trigger or a dialog
MouseUp(inside) ==
    /\ inside => (popups # {} \/ AttachedDialogs # {})
    /\ ~inside => Cardinality(popups) < MaxPopups
    /\ timers' = IF inside THEN timers ELSE handleSelection(timers)
    /\ Len(timers') <= MaxTimers
    /\ UNCHANGED <<win, dispatcherVars, sel, currentPopup, currentDialog, selectionRect,
                   popups, dialogs>>

\* the debounce callback of handleSelection
DebounceFire(k) ==
    /\ CanFire(k, "debounce")
    /\ timers' = removePopup(RemoveAt(timers, k))
    /\ IF currentDialog = 0
          /\ getSelectedText(sel) # <<>>
          /\ getSelectionRect(sel) # NoRect
       THEN /\ selectionRect' = getSelectionRect(sel)
            /\ currentPopup' = NewPopup
            /\ popups' = popups \cup {NewPopup}
       ELSE UNCHANGED <<selectionRect, currentPopup, popups>>
    /\ UNCHANGED <<win, dispatcherVars, sel, currentDialog, dialogs>>

\* the timeout of removePopup: removeElement(currentPopup); currentPopup = null
PopupTimerFire(k) ==
    /\ CanFire(k, "popup")
    /\ timers' = RemoveAt(timers, k)
    /\ popups' = popups \ {currentPopup}
    /\ currentPopup' = 0
    /\ UNCHANGED <<win, dispatcherVars, sel, currentDialog, selectionRect, dialogs>>

\* the timeout of removeDialog: removeElement(currentDialog); currentDialog = null
DialogTimerFire(k) ==
    /\ CanFire(k, "dialog")
    /\ timers' = RemoveAt(timers, k)
    /\ dialogs' = IF currentDialog # 0
                  THEN [dialogs EXCEPT ![currentDialog] = Detached]
                  ELSE dialogs
    /\ currentDialog' = 0
    /\ UNCHANGED <<win, dispatcherVars, sel, currentPopup, selectionRect, popups>>

\* handlePopupClick(): the wand button of attached trigger p is activated
handlePopupClick(p) ==
    /\ p \in popups
    /\ Len(dialogs) < MaxDialogs
    /\ timers' = removePopup(timers)
    /\ Len(timers') <= MaxTimers
    /\ IF getSelectedText(sel) = <<>> \/ selectionRect = NoRect
       THEN UNCHANGED <<currentDialog, dialogs, reqs>>
       ELSE /\ currentDialog' = Len(dialogs) + 1
            /\ dialogs' = Append(dialogs,
                                 createDialogBox(selectionRect, getSelectedText(sel)))
            /\ reqs' = Append(reqs,
                              NewRequest([type |-> "AI_QUERY",
                                          text |-> getSelectedText(sel)],
                                         Len(dialogs) + 1))
    /\ UNCHANGED <<win, store, net, sel, currentPopup, selectionRect, popups>>

\* handleAskAIClick(): the Ask AI button of attached trigger p is activated
handleAskAIClick(p) ==
    /\ p \in popups
    /\ Len(dialogs) < MaxDialogs
    /\ timers' = removePopup(timers)
    /\ Len(timers') <= MaxTimers
    /\ IF getSelectedText(sel) = <<>> \/ selectionRect = NoRect
       THEN UNCHANGED <<currentDialog, dialogs>>
       ELSE /\ currentDialog' = Len(dialogs) + 1
            /\ dialogs' = Append(dialogs,
                                 createAskAIDialogBox(selectionRect, getSelectedText(sel)))
    /\ UNCHANGED <<win, dispatcherVars, sel, currentPopup, selectionRect, popups>>

\* the user edits the question field of an attached ask dialog
TypeQuestion(d, v) ==
    /\ d \in AttachedDialogs
    /\ dialogs[d].hasInput
    /\ dialogs[d].input # v
    /\ dialogs' = [dialogs EXCEPT ![d].input = v]
    /\ UNCHANGED <<win, dispatcherVars, sel, currentPopup, currentDialog, selectionRect,
                   popups, timers>>

\* submitQuestion without the check of an empty question
submitQuestion_NoEmptyCheck(d) ==
    /\ d \in AttachedDialogs
    /\ dialogs[d].hasInput
    /\ dialogs' = [dialogs EXCEPT ![d].hasInput = FALSE,
                                   ![d].hasContent = TRUE,
                                   ![d].content = Loading]
    /\ reqs' = Append(reqs,
                      NewRequest([type |-> "AI_QUERY_CUSTOM",
                                  text |-> dialogs[d].text,
                                  question |-> Trim(dialogs[d].input)], d))
    /\ UNCHANGED <<win, store, net, sel, currentPopup, currentDialog, selectionRect,
                   popups, timers>>

\* submitQuestion(): Enter in the question field, or the Ask button
submitQuestion(d) ==
    /\ d \in AttachedDialogs
    /\ dialogs[d].hasInput
    /\ IF Trim(dialogs[d].input) = <<>>
       THEN UNCHANGED <<dialogs, reqs>>
       ELSE /\ dialogs' = [dialogs EXCEPT ![d].hasInput = FALSE,
                                          ![d].hasContent = TRUE,
                                          ![d].content = Loading]
            /\ reqs' = Append(reqs,
                              NewRequest([type |-> "AI_QUERY_CUSTOM",
                                          text |-> dialogs[d].text,
                                          question |-> Trim(dialogs[d].input)], d))
    /\ UNCHANGED <<win, store, net, sel, currentPopup, currentDialog, selectionRect,
                   popups, timers>>

\* CloseClick that also abandons the requests of the dialog it closes
CloseClick_Aborts(d) ==
    /\ d \in AttachedDialogs
    /\ timers' = removeDialog(timers)
    /\ Len(timers') <= MaxTimers
    /\ reqs' = [r \in DOMAIN reqs |->
                  IF reqs[r].from = d /\ reqs[r].st \in {"sent", "settings", "first"}
                  THEN Retired(reqs[r], "lost", NoResult)
                  ELSE reqs[r]]
    /\ UNCHANGED <<win, store, net, sel, currentPopup, currentDialog, selectionRect,
                   popups, dialogs>>

\* the close button of an attached dialog: removeDialog()
CloseClick(d) ==
    /\ d \in AttachedDialogs
    /\ timers' = removeDialog(timers)
    /\ Len(timers') <= MaxTimers
    /\ UNCHANGED <<win, dispatcherVars, sel, currentPopup, currentDialog, selectionRect,
                   popups, dialogs>>

\* mousedown listener; target: "page", "popup" or "dialog"
MouseDown(target) ==
    /\ target = "popup" => popups # {}
    /\ target = "dialog" => AttachedDialogs # {}
    /\ timers' = LET t1 == IF target # "popup" THEN removePopup(timers) ELSE timers
                 IN  IF target # "dialog" THEN removeDialog(t1) ELSE t1
    /\ Len(timers') <= MaxTimers
    /\ UNCHANGED <<win, dispatcherVars, sel, currentPopup, currentDialog, selectionRect,
                   popups, dialogs>>

\* a scroll listener that calls cleanup()
Scroll_Cleanup ==
    /\ timers' = removeDialog(removePopup(timers))
    /\ Len(timers') <= MaxTimers
    /\ selectionRect' = NoRect
    /\ UNCHANGED <<win, dispatcherVars, sel, currentPopup, currentDialog, popups, dialogs>>

\* scroll listener
Scroll ==
    /\ timers' = removePopup(timers)
    /\ Len(timers') <= MaxTimers
    /\ UNCHANGED <<win, dispatcherVars, sel, currentPopup, currentDialog, selectionRect,
                   popups, dialogs>>

\* visibilitychange listener, document.hidden
VisibilityHidden ==
    /\ timers' = removePopup(timers)
    /\ Len(timers') <= MaxTimers
    /\ UNCHANGED <<win, dispatcherVars, sel, currentPopup, currentDialog, selectionRect,
                   popups, dialogs>>

\* keydown listener, Escape: cleanup()
Escape ==
    /\ timers' = MarkEscaped(removeDialog(removePopup(timers)))
    /\ Len(timers') <= MaxTimers
    /\ selectionRect' = NoRect
    /\ UNCHANGED <<win, dispatcherVars, sel, currentPopup, currentDialog, popups, dialogs>>

----------------------------------------------------------------------------
(* Specifications                                                          *)

PageInit ==
    /\ sel = NoSelection
    /\ currentPopup = 0
    /\ currentDialog = 0
    /\ selectionRect = NoRect
    /\ popups = {}
    /\ dialogs = <<>>
    /\ timers = <<>>
    /\ win = DefaultWindow

\* the dispatcher, driven by any sender and by the options page
DispatchInit ==
    /\ store = << >>
    /\ net = AllReplies
    /\ reqs = [r \in 1..MaxRaw |-> IdleRequest]
    /\ PageInit

DispatchNext ==
    \/ \E r \in DOMAIN reqs, m \in RawMessages : RawSend(r, m)
    \/ \E input \in KeyInputs : SaveApiKey(input)
    \/ \E input \in KeyInputs, model \in ModelChoices : SaveSettings(input, model)
    \/ \E r \in DOMAIN reqs : OnAIQuery(r)
    \/ \E r \in DOMAIN reqs : OnAIQueryCustom(r)
    \/ \E r \in DOMAIN reqs : getAIResponse_settings(r)
    \/ \E r \in DOMAIN reqs : getAIResponse_first(r)
    \/ \E r \in DOMAIN reqs : getAIResponse_fallback(r)
    \/ \E r \in DOMAIN reqs : getCustomAIResponse_settings(r)
    \/ \E r \in DOMAIN reqs : getCustomAIResponse_first(r)
    \/ \E r \in DOMAIN reqs : getCustomAIResponse_fallback(r)
    \/ \E r \in DOMAIN reqs : Deliver(r)
    \/ \E r \in DOMAIN reqs : BridgeFail(r)

SpecDispatch == DispatchInit /\ [][DispatchNext]_vars

\* a step of a dispatch: the settings are read, or an attempt returns
DispatchProgress ==
    \E r \in DOMAIN reqs :
        \/ getAIResponse_settings(r)
        \/ getAIResponse_first(r)
        \/ getAIResponse_fallback(r)
        \/ getCustomAIResponse_settings(r)
        \/ getCustomAIResponse_first(r)
        \/ getCustomAIResponse_fallback(r)

\* the dispatcher with storage reads that resolve and HTTP calls that return
SpecDispatchLive == DispatchInit /\ [][DispatchNext]_vars /\ WF_vars(DispatchProgress)

\* the replies of a provider that answers or fails, and never rate-limits
PageReplies ==
    {Http(200, "object", "", TRUE, <<" ", "a">>),
     Http(500, "object", "", FALSE, <<>>)}

\* the content script on a page, with a key saved
Init ==
    /\ store = [geminiApiKey |-> Key1]
    /\ net = PageReplies
    /\ reqs = <<>>
    /\ PageInit

Next ==
    \/ \E s \in Selections : SelectionChange(s)
    \/ \E inside \in BOOLEAN : MouseUp(inside)
    \/ \E target \in {"page", "popup", "dialog"} : MouseDown(target)
    \/ Scroll
    \/ VisibilityHidden
    \/ Escape
    \/ \E p \in popups : handlePopupClick(p)
    \/ \E p \in popups : handleAskAIClick(p)
    \/ \E d \in DOMAIN dialogs, v \in QuestionInputs : TypeQuestion(d, v)
    \/ \E d \in DOMAIN dialogs : submitQuestion(d)
    \/ \E d \in DOMAIN dialogs : CloseClick(d)
    \/ \E k \in DOMAIN timers : DebounceFire(k)
    \/ \E k \in DOMAIN timers : PopupTimerFire(k)
    \/ \E k \in DOMAIN timers : DialogTimerFire(k)
    \/ \E r \in DOMAIN reqs : OnAIQuery(r)
    \/ \E r \in DOMAIN reqs : OnAIQueryCustom(r)
    \/ \E r \in DOMAIN reqs : getAIResponse_settings(r)
    \/ \E r \in DOMAIN reqs : getAIResponse_first(r)
    \/ \E r \in DOMAIN reqs : getCustomAIResponse_settings(r)
    \/ \E r \in DOMAIN reqs : getCustomAIResponse_first(r)
    \/ \E r \in DOMAIN reqs : Deliver(r)
    \/ \E r \in DOMAIN reqs : BridgeFail(r)

Spec == Init /\ [][Next]_vars

\* window sizes and scroll offsets, from a narrow panel to a desktop window
Windows ==
    [innerWidth : {300, 700, 1200}, innerHeight : {400, 800},
     scrollX : {0, 150}, scrollY : {0, 50}]

\* boxes of selected text, in viewport coordinates
Boxes == [x : {0, 10, 400, 900}, y : {100, 300, 700}, w : {50}, h : {20}]

\* the page with text selected somewhere in the visible part of a window:
\* the selection is released, the trigger appears and is activated
PositionInit ==
    /\ store = [geminiApiKey |-> Key1]
    /\ net = PageReplies
    /\ reqs = <<>>
    /\ win \in Windows
    /\ \E b \in Boxes :
         /\ b.x + b.w <= win.innerWidth
         /\ b.y + b.h <= win.innerHeight
         /\ sel = [ranges |-> TRUE, collapsed |-> FALSE, text |-> <<" ", "a">>, box |-> b]
    /\ currentPopup = 0
    /\ currentDialog = 0
    /\ selectionRect = NoRect
    /\ popups = {}
    /\ dialogs = <<>>
    /\ timers = <<>>

PositionNext ==
    \/ MouseUp(FALSE)
    \/ \E k \in DOMAIN timers : DebounceFire(k)
    \/ \E k \in DOMAIN timers : PopupTimerFire(k)
    \/ \E p \in popups : handlePopupClick(p)
    \/ \E p \in popups : handleAskAIClick(p)

SpecPosition == PositionInit /\ [][PositionNext]_vars

\* longest response text, longest text between two bold markers and longest
\* error message of the provider
MaxText == 3
MaxSpan == 3
MaxError == 3

\* the characters the replacements of parseMarkdown look for, and a letter
Alphabet == {"&", "<", ">", "*", "_", Backquote, "\n", "a"}

\* the texts of up to n characters
TextsUpTo(n) == UNION {[1..k -> Alphabet] : k \in 0..n}

\* a text between two bold markers
BoldTexts ==
    {d \o t \o d : d \in {<<"*", "*">>, <<"_", "_">>},
                   t \in TextsUpTo(MaxSpan) \ {<<>>}}

\* what the provider can send: a response text that is not blank, or an
\* error with a message
MarkdownReplies ==
    {Http(200, "object", "", TRUE, t) :
        t \in {u \in TextsUpTo(MaxText) \cup BoldTexts : Len(Trim(u)) > 0}}
    \cup {Http(500, "object", m, FALSE, <<>>) : m \in TextsUpTo(MaxError) \ {<<>>}}

\* the page with text selected and a provider that answers with one text:
\* the trigger appears and is activated, the answer is rendered in the dialog
MarkdownInit ==
    /\ store = [geminiApiKey |-> Key1]
    /\ \E reply \in MarkdownReplies : net = {reply}
    /\ reqs = <<>>
    /\ win = DefaultWindow
    /\ sel = [ranges |-> TRUE, collapsed |-> FALSE, text |-> <<" ", "a">>, box |-> TextBox]
    /\ currentPopup = 0
    /\ currentDialog = 0
    /\ selectionRect = NoRect
    /\ popups = {}
    /\ dialogs = <<>>
    /\ timers = <<>>

MarkdownNext ==
    \/ MouseUp(FALSE)
    \/ \E k \in DOMAIN timers : DebounceFire(k)
    \/ \E k \in DOMAIN timers : PopupTimerFire(k)
    \/ \E p \in popups : handlePopupClick(p)
    \/ \E r \in DOMAIN reqs : OnAIQuery(r)
    \/ \E r \in DOMAIN reqs : getAIResponse_settings(r)
    \/ \E r \in DOMAIN reqs : getAIResponse_first(r)
    \/ \E r \in DOMAIN reqs : Deliver(r)

SpecMarkdown == MarkdownInit /\ [][MarkdownNext]_vars

\* a step of the service worker or of the bridge for some request
Progress ==
    \E r \in DOMAIN reqs :
        \/ OnAIQuery(r)
        \/ OnAIQueryCustom(r)
        \/ getAIResponse_settings(r)
        \/ getAIResponse_first(r)
        \/ getCustomAIResponse_settings(r)
        \/ getCustomAIResponse_first(r)
        \/ Deliver(r)

\* the page with a worker whose promises settle and a bridge that delivers:
\* the event loop runs a ready continuation, every fetch returns
SpecLive == Init /\ [][Next]_vars /\ WF_vars(Progress)

----------------------------------------------------------------------------
(* Vocabulary of the properties                                            *)

\* seq without every occurrence of x, order kept
RECURSIVE Without(_, _)
Without(seq, x) ==
    IF seq = <<>> THEN <<>>
    ELSE IF Head(seq) = x THEN Without(Tail(seq), x)
    ELSE <<Head(seq)>> \o Without(Tail(seq), x)

\* the fallback candidates of a configured model, in declared order
Candidates(selected) == Without(AVAILABLE_MODELS, selected)

\* the models a dispatch has called, in order
CallModels(q) == [j \in DOMAIN q.calls |-> q.calls[j].model]

Settled(res) == res # NoResult

KeyStored == Has(store, "geminiApiKey") /\ store.geminiApiKey # <<>>

\* a QueryResult with exactly one of response / error, and that one not empty
WellFormed(res) ==
    /\ Has(res, "success")
    /\ IF res.success
       THEN Has(res, "response") /\ res.response # <<>> /\ ~Has(res, "error")
       ELSE Has(res, "error") /\ res.error # "" /\ ~Has(res, "response")

\* every attempt dispatch q has made returned a 429
All429(q) == \A j \in DOMAIN q.calls : Is429(q.calls[j].result)

----------------------------------------------------------------------------
(* Properties of the dispatcher (SpecDispatch)                             *)

\* C1: when the settings a dispatch reads hold no API key, the dispatch ends
\* in that step with success=false and a non-empty error, having made no
\* HTTP call.
C1_NoKeyNoCall ==
    [][\A r \in DOMAIN reqs :
         (reqs[r].st = "settings" /\ ~KeyStored /\ reqs'[r] # reqs[r])
         => /\ reqs'[r].st = "responded"
            /\ reqs'[r].out.success = FALSE
            /\ reqs'[r].out.error # ""
            /\ reqs'[r].calls = <<>>]_vars

C1_Witness ==
    \E r \in DOMAIN reqs :
        /\ reqs[r].st = "responded"
        /\ ~NoText(reqs[r].msg)
        /\ ~KeyStored
        /\ reqs[r].out = Failure(NotConfigured)
        /\ reqs[r].calls = <<>>

\* C2: when the first attempt returned a 429 and the k-th fallback attempt
\* succeeded, the result is a success whose modelUsed is the k-th candidate,
\* and the calls made are the configured model followed by candidates 1..k
\* in declared order, each once, and none after the k-th.
C2_FallbackSuccess ==
    \A r \in DOMAIN reqs :
        LET q == reqs[r]
            k == Len(q.calls) - 1
        IN  (/\ Len(q.calls) >= 2
             /\ Is429(q.calls[1].result)
             /\ Settled(q.calls[k + 1].result)
             /\ q.calls[k + 1].result.success)
            => /\ q.st = "responded"
               /\ q.out.success
               /\ q.calls[1].model = q.selectedModel
               /\ k <= Len(Candidates(q.selectedModel))
               /\ q.out.modelUsed = Candidates(q.selectedModel)[k]
               /\ CallModels(q) = <<q.selectedModel>>
                                  \o SubSeq(Candidates(q.selectedModel), 1, k)

\* the second candidate answers after two 429s
C2_Witness ==
    \E r \in DOMAIN reqs :
        /\ reqs[r].st = "responded"
        /\ Len(reqs[r].calls) = 3
        /\ Is429(reqs[r].calls[1].result)
        /\ Is429(reqs[r].calls[2].result)
        /\ reqs[r].out.success
        /\ reqs[r].out.modelUsed = "gemini-3-flash-preview"

\* C3: when the first attempt returned a 429 and a fallback attempt failed
\* with anything but a 429, that attempt is the last call of the dispatch,
\* and the dispatch has answered success=false with that attempt's error.
C3_FallbackAbort ==
    \A r \in DOMAIN reqs :
        \A j \in 2..Len(reqs[r].calls) :
            LET q == reqs[r]
                res == q.calls[j].result
            IN  (/\ Is429(q.calls[1].result)
                 /\ Settled(res)
                 /\ ~res.success
                 /\ ~Is429(res))
                => /\ j = Len(q.calls)
                   /\ q.st = "responded"
                   /\ q.out = Failure(res.error)

\* a 500 from the first candidate while another candidate remains
C3_Witness ==
    \E r \in DOMAIN reqs :
        /\ reqs[r].st = "responded"
        /\ Len(reqs[r].calls) = 2
        /\ Len(Candidates(reqs[r].selectedModel)) > 1
        /\ Is429(reqs[r].calls[1].result)
        /\ Has(reqs[r].calls[2].result, "statusCode")
        /\ reqs[r].calls[2].result.statusCode = 500
        /\ reqs[r].out = Failure(reqs[r].calls[2].result.error)

\* C4: when the first attempt failed with anything but a 429, the dispatch
\* has made that one call only and has answered with that failure.
C4_FirstFailureFinal ==
    \A r \in DOMAIN reqs :
        LET q == reqs[r]
        IN  (/\ Len(q.calls) >= 1
             /\ Settled(q.calls[1].result)
             /\ ~q.calls[1].result.success
             /\ ~Is429(q.calls[1].result))
            => /\ Len(q.calls) = 1
               /\ q.st = "responded"
               /\ q.out = Failure(q.calls[1].result.error)

\* a transport failure of the first attempt
C4_Witness ==
    \E r \in DOMAIN reqs :
        /\ reqs[r].st = "responded"
        /\ Len(reqs[r].calls) = 1
        /\ reqs[r].calls[1].result = Failure("Failed to fetch")
        /\ reqs[r].out = Failure("Failed to fetch")

\* C5: when a dispatch has answered and every attempt it made returned a
\* 429, it has called the configured model and then every candidate once,
\* in declared order, and its answer is success=false with the error of the
\* last attempt.
C5_AllRateLimited ==
    \A r \in DOMAIN reqs :
        LET q == reqs[r]
        IN  (q.st = "responded" /\ q.calls # <<>> /\ All429(q))
            => /\ CallModels(q) = <<q.selectedModel>> \o Candidates(q.selectedModel)
               /\ q.out = Failure(q.calls[Len(q.calls)].result.error)

\* every model rate-limited, the last one with its own message
C5_Witness ==
    \E r \in DOMAIN reqs :
        /\ reqs[r].st = "responded"
        /\ Len(reqs[r].calls) = 3
        /\ All429(reqs[r])
        /\ reqs[r].calls[1].result.error = "API request failed with status 429"
        /\ reqs[r].out = Failure("Quota exceeded")

\* C6: every QueryResult passed to sendResponse, and every one a callback
\* received, has success=true with a non-empty response and no error, or
\* success=false with a non-empty error and no response.
C6_ResultWellFormed ==
    \A r \in DOMAIN reqs :
        /\ reqs[r].st = "responded" => WellFormed(reqs[r].out)
        /\ reqs[r].st = "delivered" => WellFormed(reqs[r].got)

\* a 2xx reply whose text is only whitespace was answered as a failure
C6_Witness ==
    \E r \in DOMAIN reqs :
        /\ reqs[r].st = "responded"
        /\ reqs[r].calls # <<>>
        /\ reqs[r].out = Failure("No response received from AI")

\* C9 as claimed: a custom question whose question is empty or whitespace is
\* answered "No question provided" whatever the text is, with no HTTP call.
C9_Original ==
    \A r \in DOMAIN reqs :
        (/\ reqs[r].st = "responded"
         /\ reqs[r].msg.type = "AI_QUERY_CUSTOM"
         /\ NoQuestion(reqs[r].msg))
        => /\ reqs[r].out = Failure("No question provided")
           /\ reqs[r].calls = <<>>

\* C9, amended: such a request is answered success=false with no HTTP call;
\* the error is "No question provided" when the text is not empty after
\* trimming, and "No text selected" when it is missing or empty.
C9_QuestionRequired ==
    \A r \in DOMAIN reqs :
        (/\ reqs[r].st \notin {"idle", "sent", "delivered", "lost"}
         /\ reqs[r].msg.type = "AI_QUERY_CUSTOM"
         /\ NoQuestion(reqs[r].msg))
        => /\ reqs[r].st = "responded"
           /\ reqs[r].calls = <<>>
           /\ reqs[r].out =
                Failure(IF NoText(reqs[r].msg) THEN "No text selected"
                        ELSE "No question provided")

C9_Witness ==
    \E r \in DOMAIN reqs :
        /\ reqs[r].st = "responded"
        /\ reqs[r].msg = [type |-> "AI_QUERY_CUSTOM", text |-> <<" ", "a">>,
                          question |-> <<" ">>]
        /\ reqs[r].out = Failure("No question provided")

\* C10: no failure leaves a dispatch without an answer: once the listener
\* has taken a request, either an attempt is pending or sendResponse has been
\* called once with a QueryResult; and when no key was read or the last
\* attempt failed, that QueryResult has success=false and a non-empty error.
C10_FailuresAreResults ==
    \A r \in DOMAIN reqs :
        LET q == reqs[r]
            n == Len(q.calls)
        IN  /\ q.st \in {"first", "fallback"}
               => n >= 1 /\ ~Settled(q.calls[n].result) /\ q.nresp = 0
            /\ q.st = "responded"
               => /\ q.nresp = 1
                  /\ Has(q.out, "success")
                  /\ \A j \in 1..n : Settled(q.calls[j].result)
                  /\ (n = 0 \/ ~q.calls[n].result.success)
                     => (~q.out.success /\ Has(q.out, "error") /\ q.out.error # "")

\* an unparseable 2xx body was answered as a failure
C10_Witness ==
    \E r \in DOMAIN reqs :
        /\ reqs[r].st = "responded"
        /\ Len(reqs[r].calls) = 1
        /\ reqs[r].out = Failure(SyntaxErrorMessage)

----------------------------------------------------------------------------
(* Properties of the page and the bridge (Spec)                            *)

\* some step of the worker or of the bridge can be taken for request r
CanProceed(r) ==
    \/ ENABLED OnAIQuery(r)
    \/ ENABLED OnAIQueryCustom(r)
    \/ ENABLED getAIResponse_settings(r)
    \/ ENABLED getAIResponse_first(r)
    \/ ENABLED getCustomAIResponse_settings(r)
    \/ ENABLED getCustomAIResponse_first(r)
    \/ ENABLED Deliver(r)

C8_LateResponseNoOp ==
    [][\A r \in DOMAIN reqs :
         (/\ reqs[r].from # 0
          /\ ~dialogs[reqs[r].from].attached
          /\ reqs'[r].ncb = reqs[r].ncb + 1)
         => dialogs' = dialogs]_vars

\* a close action on dialog d: its close button, a mousedown outside every
\* dialog, or Escape
CloseAction(d) ==
    \/ CloseClick(d)
    \/ d \in AttachedDialogs /\ (MouseDown("page") \/ MouseDown("popup") \/ Escape)

\* C11: a close action on an open dialog d starts the 200 ms fade timer of d,
\* and when the fade timer of d fires, d is detached and currentDialog is
\* null, whatever the state of the requests.
C11_CloseDetaches ==
    [][/\ \A d \in DOMAIN dialogs :
            CloseAction(d)
            => \E k \in DOMAIN timers' :
                   timers'[k].kind = "dialog" /\ timers'[k].el = d
       /\ \A k \in DOMAIN timers :
            (timers[k].kind = "dialog" /\ DialogTimerFire(k))
            => ~dialogs'[timers[k].el].attached /\ currentDialog' = 0]_vars

\* the callback of request r runs in this step
CallbackRuns(r) == reqs'[r].ncb = reqs[r].ncb + 1

\* C12: when the callback of a request runs with a failure (lastError, or a
\* result with success=false) while the dialog that issued the request is
\* attached, that dialog then shows an error: the connectivity message for
\* lastError, the result's error text otherwise.
C12_FailureShown ==
    [][\A r \in DOMAIN reqs :
         (/\ reqs[r].from # 0
          /\ dialogs[reqs[r].from].attached
          /\ CallbackRuns(r)
          /\ (reqs'[r].st = "lost" \/ ~reqs[r].out.success))
         => dialogs'[reqs[r].from].content =
              [state |-> "error",
               error |-> IF reqs'[r].st = "lost" THEN ConnectError
                         ELSE reqs[r].out.error,
               req |-> r]]_vars

\* dialog d is attached and shows the loading indicator
Waiting(d) == d \in DOMAIN dialogs /\ dialogs[d].attached /\ dialogs[d].content = Loading

\* dialog d shows a response or an error, or has been removed
Settles(d) ==
    /\ d \in DOMAIN dialogs
    /\ \/ ~dialogs[d].attached
       \/ dialogs[d].content.state \in {"response", "error"}

\* C13: a dialog that shows the loading indicator after dispatching its
\* request eventually shows a response or an error, unless it is removed.
C13_EventuallyAnswered ==
    \A d \in 1..MaxDialogs : [](Waiting(d) => <>Settles(d))

\* C14: a trigger is attached to the page only by the debounce callback,
\* and only when it finds a selection that has a range, is not collapsed,
\* has non-empty trimmed text and a box that is not 0 by 0, while
\* currentDialog is null; the new trigger becomes currentPopup.
C14_PopupOnlyForSelection ==
    [][(popups' \ popups # {})
       => /\ \E k \in DOMAIN timers : timers[k].kind = "debounce" /\ DebounceFire(k)
          /\ sel.ranges /\ ~sel.collapsed
          /\ Trim(sel.text) # <<>>
          /\ ~(sel.box.w = 0 /\ sel.box.h = 0)
          /\ currentDialog = 0
          /\ currentPopup' \in popups' \ popups]_vars

\* a trigger was created for a selection made after a dialog had been closed
C14_Witness ==
    /\ currentPopup # 0
    /\ currentPopup \in popups
    /\ selectionRect # NoRect
    /\ selectionRect.of = <<" ", "a">>
    /\ dialogs # <<>>
    /\ AttachedDialogs = {}
    /\ currentDialog = 0

\* the pending debounce timers
Debounces(ts) == {k \in DOMAIN ts : ts[k].kind = "debounce"}

\* C15: at most one debounce timer is pending.  A pointer-up outside the UI
\* leaves exactly one, the newest timer, with the 150 ms delay, and leaves
\* the other pending timers as they were; the debounce callback leaves none,
\* so a burst of pointer-ups is followed by one selection evaluation.
C15_OneDebounce ==
    [][/\ Cardinality(Debounces(timers')) <= 1
       /\ MouseUp(FALSE)
          => /\ Debounces(timers') = {Len(timers')}
             /\ timers'[Len(timers')].delay = DEBOUNCE_DELAY
             /\ SubSeq(timers', 1, Len(timers') - 1)
                  = SelectSeq(timers, LAMBDA t : t.kind # "debounce")
       /\ (\E k \in Debounces(timers) : DebounceFire(k))
          => Debounces(timers') = {}]_vars

\* a pointer-up restarted the debounce timer while a dialog was fading
C15_Witness ==
    /\ Len(timers) = 2
    /\ timers[1].kind = "dialog"
    /\ timers[2].kind = "debounce"

\* C16: a scroll or a visibility loss changes nothing but the timers, where
\* it registers the fade timer of the current trigger if there is one; and
\* the callback of a trigger's fade timer removes nothing but a trigger.  The
\* dialogs with their content, currentDialog, the requests and the recorded
\* selection rectangle stay as they were.
C16_ScrollKeepsDialog ==
    [][/\ (Scroll \/ VisibilityHidden)
          => /\ UNCHANGED <<dialogs, currentDialog, reqs, selectionRect,
                            popups, currentPopup>>
             /\ timers' = IF currentPopup = 0 THEN timers
                          ELSE Append(timers, [kind |-> "popup", delay |-> POPUP_FADE,
                                               el |-> currentPopup,
                                               escaped |-> FALSE])
       /\ (\E k \in DOMAIN timers : PopupTimerFire(k))
          => /\ UNCHANGED <<dialogs, currentDialog, reqs, selectionRect>>
             /\ popups' \subseteq popups]_vars

\* the page scrolled while a dialog was waiting for its answer: the trigger
\* has two fade timers, the dialog still shows the loading indicator
C16_Witness ==
    /\ Len(timers) = 2
    /\ timers[1].kind = "popup" /\ timers[2].kind = "popup"
    /\ currentDialog # 0
    /\ dialogs[currentDialog].attached
    /\ dialogs[currentDialog].content = Loading
    /\ \E r \in DOMAIN reqs : reqs[r].from = currentDialog /\ reqs[r].st = "first"
    /\ selectionRect # NoRect

\* C17: Escape resets the recorded selection rectangle to null; the trigger
\* and the dialog it fades are detached once their fade timers have fired;
\* and a debounce callback that was pending when Escape was pressed (no
\* pointer-up has come since) creates no trigger.
C17_EscapeClears ==
    [][/\ Escape => selectionRect' = NoRect
       /\ \A k \in DOMAIN timers :
            /\ (timers[k].escaped /\ PopupTimerFire(k))
               => timers[k].el \notin popups'
            /\ (timers[k].escaped /\ DialogTimerFire(k))
               => ~dialogs'[timers[k].el].attached
            /\ (timers[k].escaped /\ DebounceFire(k))
               => popups' \subseteq popups]_vars

\* the AI_QUERY_CUSTOM requests dialog d has sent, among rs
CustomFrom(rs, d) ==
    {r \in DOMAIN rs : rs[r].from = d /\ rs[r].msg.type = "AI_QUERY_CUSTOM"}

\* C18: opening an ask dialog sends nothing; a submit with a blank input
\* changes neither the requests nor the dialogs; a submit with a non-blank
\* input sends one AI_QUERY_CUSTOM whose question is the trimmed input and
\* whose text is the one the dialog was opened with; no other step sends an
\* AI_QUERY_CUSTOM; a dialog never has more than one; and the text a dialog
\* was opened with does not change while it is attached.
C18_AskSubmit ==
    [][/\ (\E p \in popups : handleAskAIClick(p)) => reqs' = reqs
       /\ \A d \in DOMAIN dialogs :
            /\ submitQuestion(d)
               => IF Trim(dialogs[d].input) = <<>>
                  THEN reqs' = reqs /\ dialogs' = dialogs
                  ELSE /\ Len(reqs') = Len(reqs) + 1
                       /\ SubSeq(reqs', 1, Len(reqs)) = reqs
                       /\ reqs'[Len(reqs')].msg =
                            [type |-> "AI_QUERY_CUSTOM",
                             text |-> dialogs[d].text,
                             question |-> Trim(dialogs[d].input)]
                       /\ reqs'[Len(reqs')].from = d
                       /\ reqs'[Len(reqs')].st = "sent"
            /\ Cardinality(CustomFrom(reqs', d)) <= 1
            /\ dialogs'[d].attached => dialogs'[d].text = dialogs[d].text
            /\ CustomFrom(reqs', d) # CustomFrom(reqs, d) => submitQuestion(d)]_vars

\* an ask dialog has sent the question typed as " a", trimmed, about the
\* text it was opened with
C18_Witness ==
    \E r \in DOMAIN reqs :
        /\ reqs[r].st = "sent"
        /\ reqs[r].msg = [type |-> "AI_QUERY_CUSTOM", text |-> <<"a">>,
                          question |-> <<"a">>]
        /\ dialogs[reqs[r].from].kind = "ask"
        /\ dialogs[reqs[r].from].content = Loading

\* C19: activating the wand of trigger p starts the removal of p; when the
\* trimmed selection text is not empty and a selection rectangle is recorded
\* it also creates one explain dialog in the loading state, which becomes
\* currentDialog, and sends one AI_QUERY with that text; otherwise it
\* creates no dialog and sends nothing.
C19_ExplainActivation ==
    [][\A p \in popups :
         handlePopupClick(p)
         => /\ Len(timers') = Len(timers) + 1
            /\ timers'[Len(timers')].kind = "popup"
            /\ timers'[Len(timers')].el = p
            /\ IF Trim(sel.text) # <<>> /\ selectionRect # NoRect
               THEN /\ Len(dialogs') = Len(dialogs) + 1
                    /\ SubSeq(dialogs', 1, Len(dialogs)) = dialogs
                    /\ dialogs'[Len(dialogs')].kind = "explain"
                    /\ dialogs'[Len(dialogs')].attached
                    /\ dialogs'[Len(dialogs')].content = Loading
                    /\ currentDialog' = Len(dialogs')
                    /\ Len(reqs') = Len(reqs) + 1
                    /\ SubSeq(reqs', 1, Len(reqs)) = reqs
                    /\ reqs'[Len(reqs')].msg =
                         [type |-> "AI_QUERY", text |-> Trim(sel.text)]
                    /\ reqs'[Len(reqs')].from = Len(dialogs')
               ELSE dialogs' = dialogs /\ reqs' = reqs /\ currentDialog' = currentDialog]_vars

----------------------------------------------------------------------------
(* C20: settings are read once per dispatch, at its start                  *)

\* dispatch q has read its settings and has not answered yet
Dispatching(q) == q.st \in {"first", "fallback"}

\* the model name getSettings resolves for the store as it is now
StoredModel ==
    IF Has(store, "geminiModel") /\ store.geminiModel # "" THEN store.geminiModel
    ELSE DefaultModel

\* C20: The step of a dispatch that reads the settings takes the key and
\* the model that the store holds at that moment, whatever an earlier
\* dispatch of the same sender read (no key stored: no attempt, the
\* not-configured failure), and issues the first attempt with them. From then
\* on the key and the model of the dispatch do not change, whatever the
\* settings page writes, and every attempt of the dispatch, the fallback
\* attempts included, carries the key read at its start.
C20_SettingsPerDispatch ==
    [][\A r \in DOMAIN reqs :
         /\ (reqs[r].st = "settings" /\ reqs'[r] # reqs[r])
              => IF KeyStored
                 THEN /\ reqs'[r].st = "first"
                      /\ reqs'[r].apiKey = store.geminiApiKey
                      /\ reqs'[r].selectedModel = StoredModel
                      /\ reqs'[r].calls = <<[model |-> StoredModel,
                                             key |-> store.geminiApiKey,
                                             result |-> NoResult]>>
                 ELSE /\ reqs'[r].calls = <<>>
                      /\ reqs'[r].out = Failure(NotConfigured)
         /\ Dispatching(reqs[r])
              => /\ \A j \in DOMAIN reqs'[r].calls :
                      reqs'[r].calls[j].key = reqs[r].apiKey
                 /\ Len(reqs'[r].calls) >= Len(reqs[r].calls)
                 /\ Dispatching(reqs'[r])
                      => /\ reqs'[r].apiKey = reqs[r].apiKey
                         /\ reqs'[r].selectedModel = reqs[r].selectedModel
      ]_vars

\* a sender whose previous dispatch read Key1 is served by a dispatch that
\* read Key2, which is in its fallback chain after the store was written
\* again: both attempts carry Key2
C20_Witness ==
    \E r \in DOMAIN reqs :
        /\ reqs[r].lastKey = Key1
        /\ reqs[r].st = "fallback"
        /\ reqs[r].apiKey = Key2
        /\ Len(reqs[r].calls) = 2
        /\ \A j \in DOMAIN reqs[r].calls : reqs[r].calls[j].key = Key2
        /\ KeyStored /\ store.geminiApiKey = Key1

----------------------------------------------------------------------------
(* C21: the dispatcher never writes the settings                           *)

\* C21: No step of the listener or of a dispatch writes the persisted
\* settings: whenever a request changes (it is sent, validated, its settings
\* are read, an attempt returns, it is answered or its answer is delivered),
\* the store is left exactly as it was, whatever the outcome. The store
\* changes only in steps of the settings page, which change no request.
C21_StoreReadOnly ==
    [][(reqs' # reqs) => (store' = store)]_vars

\* a dispatch answered through its fallback chain with another model than
\* the stored one, while the store still holds the key and the model it read
C21_Witness ==
    \E r \in DOMAIN reqs :
        /\ reqs[r].st = "responded"
        /\ reqs[r].out.success
        /\ Len(reqs[r].calls) >= 2
        /\ KeyStored /\ store.geminiApiKey = reqs[r].apiKey
        /\ StoredModel = reqs[r].selectedModel
        /\ reqs[r].out.modelUsed # StoredModel

----------------------------------------------------------------------------
(* C22: the four outcomes of one HTTP attempt                              *)

\* the reply carries text that is not empty once trimmed
HasText(reply) ==
    reply.body = "object" /\ reply.hasText /\ Trim(reply.text) # <<>>

\* the reply's body carries a structured error message
HasErrorMessage(reply) == reply.body = "object" /\ reply.errmsg # ""

\* res is the outcome the four cases give for reply
FourOutcomes(reply, res) ==
    IF reply.kind = "reject"
    THEN /\ ~res.success /\ ~Has(res, "statusCode")
         /\ res.error = OrElse(reply.message, "Network error occurred")
    ELSE IF ~ResponseOk(reply)
    THEN /\ ~res.success
         /\ Has(res, "statusCode") /\ res.statusCode = reply.status
         /\ res.error = IF HasErrorMessage(reply) THEN reply.errmsg
                        ELSE StatusText(reply.status)
    ELSE IF ~HasText(reply)
    THEN res = [success |-> FALSE, error |-> "No response received from AI"]
    ELSE res = [success |-> TRUE, response |-> Trim(reply.text)]

\* C22: Every result an attempt of a dispatch has returned is the result of
\* one of the four cases for a reply the network can give: a transport
\* failure gives a failure with the transport message and no status code, a
\* non-2xx reply a failure with the reply's status code and the body's error
\* message or else the generic status message, a 2xx reply without text the
\* failure "No response received from AI", a 2xx reply with text a success
\* with the trimmed text.
C22_FourOutcomes ==
    \A r \in DOMAIN reqs : \A j \in DOMAIN reqs[r].calls :
        Settled(reqs[r].calls[j].result)
            => \E reply \in net :
                  /\ reqs[r].calls[j].result = makeAPICall(reply)
                  /\ FourOutcomes(reply, reqs[r].calls[j].result)

----------------------------------------------------------------------------
(* C23: one trigger affordance                                             *)

\* C23: At every moment at most one trigger element is attached to the
\* page, and an attached trigger element is the one currentPopup refers to.
C23_OnePopup ==
    /\ Cardinality(popups) <= 1
    /\ \A p \in popups : p = currentPopup

----------------------------------------------------------------------------
(* C24: one dialog                                                         *)

\* C24: At every moment at most one dialog element is attached to the page,
\* and an attached dialog element is the one currentDialog refers to.
C24_OneDialog ==
    /\ Cardinality(AttachedDialogs) <= 1
    /\ \A d \in AttachedDialogs : d = currentDialog

----------------------------------------------------------------------------
(* C25: closing the dialog does not touch the dispatch                     *)

\* the step registers or fires a timer, moves currentDialog, or attaches or
\* detaches a dialog: every step of closing a dialog is one of these
DialogStep ==
    \/ timers' # timers
    \/ currentDialog' # currentDialog
    \/ AttachedDialogs' # AttachedDialogs

\* q2 is what a step of the listener, of the dispatch or of the bridge
\* makes of request q, as a function of q, the store and the reply alone
DispatchStep(q, q2) ==
    CASE q.st = "sent" ->
           \/ q2 = Retired(q, "lost", NoResult)
           \/ /\ q.msg.type = "AI_QUERY"
              /\ q2 = IF ValidateQuery(q.msg) # ""
                      THEN sendResponse(q, Failure(ValidateQuery(q.msg)))
                      ELSE [q EXCEPT !.st = "settings"]
           \/ /\ q.msg.type = "AI_QUERY_CUSTOM"
              /\ q2 = IF ValidateCustom(q.msg) # ""
                      THEN sendResponse(q, Failure(ValidateCustom(q.msg)))
                      ELSE [q EXCEPT !.st = "settings"]
      [] q.st = "settings" -> q2 = DispatchStart(q, getSettings(store))
      [] q.st = "first" -> \E reply \in net : q2 = AfterFirst(q, makeAPICall(reply))
      [] q.st = "fallback" -> \E reply \in net : q2 = AfterFallback(q, makeAPICall(reply))
      [] q.st = "responded" -> q2 = Retired(q, "delivered", q.out)
      [] OTHER -> FALSE

----------------------------------------------------------------------------
(* C26: the selection snapshot is discarded                                *)

\* the selection the debounce callback finds gives no trigger
NoValidSelection == getSelectedText(sel) = <<>> \/ getSelectionRect(sel) = NoRect

\* C26: After every step, selectionRect is null while a dialog is open
\* (currentDialog is set), and the debounce callback of a pointer-up that
\* finds no valid selection leaves selectionRect null.
C26_RectDiscarded ==
    [][/\ currentDialog' # 0 => selectionRect' = NoRect
       /\ \A k \in DOMAIN timers :
            (DebounceFire(k) /\ NoValidSelection) => selectionRect' = NoRect
      ]_vars

----------------------------------------------------------------------------
(* C27: modelUsed                                                          *)

\* the dispatch of q has sent a successful QueryResult
Succeeded(q) == q.st = "responded" /\ Has(q.out, "success") /\ q.out.success

\* C27: After every step, a dispatch that has answered with a success names
\* in modelUsed the model of the last call it made; if its first attempt
\* succeeded it made exactly one call and modelUsed is the configured model.
\* The configured model is the one read at the start of the dispatch: when
\* the store holds a key and no model, it is "gemini-2.5-flash-lite", and
\* the first call goes to it.
C27_ModelUsed ==
    [][\A r \in DOMAIN reqs :
         /\ Succeeded(reqs'[r])
              => /\ reqs'[r].calls # <<>>
                 /\ reqs'[r].out.modelUsed = reqs'[r].calls[Len(reqs'[r].calls)].model
                 /\ reqs'[r].calls[1].result.success
                      => /\ Len(reqs'[r].calls) = 1
                         /\ reqs'[r].out.modelUsed = reqs'[r].selectedModel
         /\ (reqs[r].st = "settings" /\ reqs'[r] # reqs[r]
                /\ KeyStored /\ ~Has(store, "geminiModel"))
              => /\ reqs'[r].selectedModel = "gemini-2.5-flash-lite"
                 /\ reqs'[r].calls[1].model = "gemini-2.5-flash-lite"
      ]_vars

\* a dispatch that read a store without model and whose first attempt
\* succeeded: one call, modelUsed is the default model
C27_Witness ==
    \E r \in DOMAIN reqs :
        /\ Succeeded(reqs[r])
        /\ ~Has(store, "geminiModel")
        /\ Len(reqs[r].calls) = 1
        /\ reqs[r].calls[1].result.success
        /\ reqs[r].out.modelUsed = "gemini-2.5-flash-lite"

----------------------------------------------------------------------------
(* C28: where the dialog is placed                                         *)

\* C28: Every attached dialog is placed below the selection it was opened
\* for (top = rect.bottom + 8), unless rect.viewportBottom + 180 + 8
\* exceeds the viewport height, and then above it (top = rect.top - 180 -
\* 8); its left edge is at least scrollX + 20 and its right edge, left plus
\* the dialog's width, is at most scrollX + viewport width - 20.
C28_DialogPlacement ==
    \A d \in AttachedDialogs :
        LET dlg == dialogs[d]
        IN  /\ dlg.top = IF dlg.rect.viewportBottom + 180 + 8 > win.innerHeight
                         THEN dlg.rect.top - 180 - 8
                         ELSE dlg.rect.bottom + 8
            /\ dlg.left >= win.scrollX + 20
            /\ dlg.left + dlg.width <= win.scrollX + win.innerWidth - 20

----------------------------------------------------------------------------
(* C29: pointer-up inside the extension's own elements                     *)

\* C29: A pointer-up whose target lies inside a trigger or a dialog leaves
\* the pending timers as they are (no debounce timer is started, restarted
\* or cancelled) and does not change currentPopup, currentDialog or
\* selectionRect.
C29_PointerUpInside ==
    [][MouseUp(TRUE)
         => UNCHANGED <<timers, currentPopup, currentDialog, selectionRect>>]_vars

\* a pointer-up inside can happen while a debounce timer is pending: a
\* trigger or a dialog is attached and the callback of an earlier
\* pointer-up has not run yet
C29_Witness ==
    /\ popups # {} \/ AttachedDialogs # {}
    /\ Debounces(timers) # {}
    /\ ENABLED MouseUp(TRUE)

----------------------------------------------------------------------------
(* C30: a dialog shows the answer to its own request                       *)

\* C30: The response or error an attached dialog shows was passed to
\* updateDialogContent by the callback of a request that this dialog sent.
C30_OwnResponse ==
    \A d \in AttachedDialogs :
        dialogs[d].content.state \in {"response", "error"}
            => reqs[dialogs[d].content.req].from = d

----------------------------------------------------------------------------
(* C31: one trigger, one dialog                                            *)

\* trigger p is the only one attached and a dialog has been opened since it
\* was shown (a trigger is created only while currentDialog is null): p has
\* been activated
Activated(p) == popups = {p} /\ currentDialog # 0

\* C31: Activating a trigger that has already been activated (either of its
\* buttons, while it is still attached during its fade-out) creates no
\* dialog and sends no message.
C31_OneDialogPerTrigger ==
    [][\A p \in popups :
         (Activated(p) /\ (handlePopupClick(p) \/ handleAskAIClick(p)))
            => dialogs' = dialogs /\ reqs' = reqs]_vars

----------------------------------------------------------------------------
(* C32: a fade timer removes its own element only                          *)

\* C32: The callback of a removal timer detaches no trigger and no dialog
\* other than the one that was current when the timer was registered, and
\* it leaves currentPopup / currentDialog alone when they refer to another
\* element by then.
C32_TimerRemovesOwnElement ==
    [][\A k \in DOMAIN timers :
         /\ (timers[k].kind = "popup" /\ PopupTimerFire(k))
              => /\ popups \ popups' \subseteq {timers[k].el}
                 /\ currentPopup # timers[k].el => currentPopup' = currentPopup
         /\ (timers[k].kind = "dialog" /\ DialogTimerFire(k))
              => /\ AttachedDialogs \ AttachedDialogs' \subseteq {timers[k].el}
                 /\ currentDialog # timers[k].el => currentDialog' = currentDialog
      ]_vars

----------------------------------------------------------------------------
(* C33: a closed dialog does not suppress the trigger                      *)

\* the user has closed the current dialog: it is fading, its removal timer
\* is pending
Closing ==
    /\ currentDialog # 0
    /\ \E j \in DOMAIN timers :
         timers[j].kind = "dialog" /\ timers[j].el = currentDialog

\* C33: When the debounce callback runs and finds a valid selection while
\* no dialog is open (currentDialog is null, or the current dialog has been
\* closed and is fading), it shows a trigger, which becomes currentPopup.
C33_ClosedDialogNoSuppress ==
    [][\A k \in DOMAIN timers :
         (/\ timers[k].kind = "debounce"
          /\ DebounceFire(k)
          /\ ~NoValidSelection
          /\ currentDialog = 0 \/ Closing)
         => currentPopup' \in popups' \ popups]_vars

----------------------------------------------------------------------------
(* C34: a dispatch terminates and calls each model at most once            *)

\* dispatch q has been started by the listener and has not answered
Running(q) == q.st \in {"settings", "first", "fallback"}

\* the models of AVAILABLE_MODELS
Available == {AVAILABLE_MODELS[k] : k \in DOMAIN AVAILABLE_MODELS}

\* C34: At every moment the calls a dispatch has made go to pairwise
\* different models, the fallback list it uses does not contain the
\* configured model, and it has made at most |AVAILABLE_MODELS| calls when
\* the configured model is in the list and at most |AVAILABLE_MODELS| + 1
\* when it is not; and every dispatch that has been started answers
\* eventually, provided its storage read resolves and its HTTP calls return.
C34_DispatchTerminates ==
    /\ [](\A r \in DOMAIN reqs :
            LET q == reqs[r]
            IN  /\ \A i, j \in DOMAIN q.calls : i # j => q.calls[i].model # q.calls[j].model
                /\ \A k \in DOMAIN q.fallbackModels : q.fallbackModels[k] # q.selectedModel
                /\ Len(q.calls) <= IF q.selectedModel \in Available
                                   THEN Len(AVAILABLE_MODELS)
                                   ELSE Len(AVAILABLE_MODELS) + 1)
    /\ \A r \in 1..MaxRaw :
         [](Running(reqs[r]) => <>(reqs[r].st = "responded"))

\* a dispatch whose configured model is not in the list has answered after
\* calling it and every model of the list
C34_Witness ==
    \E r \in DOMAIN reqs :
        /\ reqs[r].st = "responded"
        /\ reqs[r].selectedModel \notin Available
        /\ Len(reqs[r].calls) = Len(AVAILABLE_MODELS) + 1

----------------------------------------------------------------------------
(* C35: a request without text                                             *)

\* C35: When the listener handles an AI_QUERY or AI_QUERY_CUSTOM whose
\* text is missing, empty or only whitespace, it answers at once with
\* success=false and "No text selected" (also when the question is missing
\* too); such a request never reaches the reading of the settings, holds no
\* key and has made no HTTP call.
C35_NoTextRejected ==
    [][\A r \in DOMAIN reqs :
         /\ (NoText(reqs[r].msg) /\ reqs[r].st = "sent"
                /\ reqs'[r].st \notin {"sent", "lost"})
              => reqs'[r] = sendResponse(reqs[r], Failure("No text selected"))
         /\ NoText(reqs'[r].msg)
              => /\ ~Running(reqs'[r])
                 /\ reqs'[r].calls = <<>>
                 /\ reqs'[r].apiKey = NullKey
      ]_vars

\* with a key stored, a custom request with blank text and no question has
\* been answered with "No text selected" and no call
C35_Witness ==
    /\ KeyStored
    /\ \E r \in DOMAIN reqs :
         /\ reqs[r].msg.type = "AI_QUERY_CUSTOM"
         /\ Has(reqs[r].msg, "text") /\ reqs[r].msg.text = <<" ">>
         /\ ~Has(reqs[r].msg, "question")
         /\ reqs[r].st = "responded"
         /\ reqs[r].out = Failure("No text selected")
         /\ reqs[r].calls = <<>>

----------------------------------------------------------------------------
(* C36: the key stays in the worker                                        *)

\* the messages the listener and the dispatcher produce themselves
FixedErrors ==
    {NotConfigured, "No text selected", "No question provided",
     "Failed to get AI response"}

\* every field of QueryResult res is a fixed message, a value taken from a
\* reply of the provider, or the name of a model that dispatch q called; no
\* field holds key k
KeyFree(q, res, k) ==
    /\ DOMAIN res \subseteq {"success", "response", "error", "modelUsed"}
    /\ Has(res, "response")
         => /\ res.response # k
            /\ \E reply \in net :
                 makeAPICall(reply).success /\ res.response = makeAPICall(reply).response
    /\ Has(res, "error")
         => \/ res.error \in FixedErrors
            \/ \E reply \in net :
                 ~makeAPICall(reply).success /\ res.error = makeAPICall(reply).error
    /\ Has(res, "modelUsed")
         => \E j \in DOMAIN q.calls : res.modelUsed = q.calls[j].model

\* C36: Every QueryResult passed to sendResponse consists of fixed
\* messages, values of the provider's replies and the name of a called
\* model only: no field holds the key the dispatch read or the key the
\* store holds, so the result is the same for every stored key.
C36_KeyStaysInWorker ==
    \A r \in DOMAIN reqs :
        reqs[r].st = "responded"
            => /\ KeyFree(reqs[r], reqs[r].out, reqs[r].apiKey)
               /\ KeyStored => KeyFree(reqs[r], reqs[r].out, store.geminiApiKey)

\* a dispatch that called the provider with Key2 has sent a response
C36_Witness ==
    \E r \in DOMAIN reqs :
        /\ reqs[r].st = "responded"
        /\ reqs[r].apiKey = Key2
        /\ reqs[r].calls[1].key = Key2
        /\ reqs[r].out.success
        /\ reqs[r].out.response = <<"a">>

----------------------------------------------------------------------------
(* C37: what reaches the dialog's markup                                   *)

Tags == {StrongOpen, StrongClose, EmOpen, EmClose, CodeOpen, CodeClose, LineBreak}

Entities == {AmpEntity, LtEntity, GtEntity}

\* every "<" of html opens a tag of the formatter, every ">" closes one and
\* every "&" starts an entity of the escaping
OnlyOwnTags(html) ==
    \A i \in DOMAIN html :
        /\ html[i] = "<" => \E t \in Tags : StartsAt(html, i, t)
        /\ html[i] = ">" => \E t \in Tags : i >= Len(t) /\ StartsAt(html, i - Len(t) + 1, t)
        /\ html[i] = "&" => \E e \in Entities : StartsAt(html, i, e)

\* no character of s is "<" or ">", every "&" starts an entity
NoMarkup(s) ==
    \A i \in DOMAIN s :
        /\ s[i] \notin {"<", ">"}
        /\ s[i] = "&" => \E e \in Entities : StartsAt(s, i, e)

\* C37: In the markup of a dialog that shows a response, every "<" belongs
\* to a tag that parseMarkdown emits (strong, em, code, br), every ">" ends
\* one and every "&" starts an entity; in the markup of a dialog that shows
\* an error, the message stands between the fixed markup as escapeHtml
\* returns it, with no "<" and no ">".
C37_MarkupEscaped ==
    \A d \in AttachedDialogs :
        LET c == dialogs[d].content
        IN  /\ c.state = "response" => OnlyOwnTags(innerHTML(c))
            /\ c.state = "error"
                 => /\ innerHTML(c) = ErrorOpen \o escapeHtml(c.error) \o ErrorClose
                    /\ NoMarkup(escapeHtml(c.error))

\* a dialog shows a response that had "<" inside bold and italic markers
C37_Witness ==
    \E d \in AttachedDialogs :
        /\ dialogs[d].content.state = "response"
        /\ dialogs[d].content.response = <<"*", "*", "*", "<", "*", "*", "*">>
        /\ innerHTML(dialogs[d].content)
             = StrongOpen \o EmOpen \o LtEntity \o StrongClose \o EmClose

----------------------------------------------------------------------------
(* C38: what a save click writes                                           *)

\* the trimmed key is not empty and starts with "AIza"
ValidKey(input) ==
    /\ Trim(input) # <<>>
    /\ StartsWith(Trim(input), <<"A", "I", "z", "a">>)

\* a save click with input on either settings page
SaveClick(input) ==
    \/ SaveApiKey(input)
    \/ \E model \in ModelChoices : SaveSettings(input, model)

============================================================================
